---- MODULE Spec2Model ----
(***************************************************************************)
(* A model of src/renitest2.js: the landing-page script of the repository. *)
(*                                                                         *)
(* The script has four independent pieces of state, each with its own      *)
(* specification below:                                                    *)
(*   SpecRate         the debounce / throttle wrappers (lines 424-450 and  *)
(*                    988-998) driven by arbitrary invocations and timers; *)
(*   SpecThrottleRun  one throttled wrapper invoked on a fixed period;     *)
(*   SpecPage         ReniLandingPage.init / destroy (lines 353-402);      *)
(*   SpecObs          page setup and the three IntersectionObservers       *)
(*                    (lines 117-180 and 601-652); SpecObsFair adds        *)
(*                    fairness of the timers and the clock;                *)
(*   SpecType         the typewriter of the hero handler (lines 503-543,   *)
(*                    585); SpecTypeFair adds fairness of its timer;       *)
(*   SpecPointer      the pointer and scroll handlers (lines 228-242,      *)
(*                    546-594, 664-687, 775-800, 1001-1003); SpecScroll    *)
(*                    the document-level ones alone, SpecScrollFair with   *)
(*                    fairness of the timer and the animation frames;      *)
(*   SpecModules      the callbacks of PerformanceMonitor (lines 14-72)    *)
(*                    and the click handlers of ContactManager (208-226).  *)
(* A specification leaves the variables of the other pieces at their idle  *)
(* values.                                                                 *)
(***************************************************************************)
EXTENDS Integers, Sequences, FiniteSets, TLC

VARIABLES
    \* ---- rate limiters (debounce, throttle) ----
    kind,         \* which wrapper: "debounce" (l.424), "debounceSvc" (l.988), "throttle" (l.439)
    wait,         \* the wrapper's wait / limit argument
    immediate,    \* debounce's third argument (always FALSE for the other two)
    timeout,      \* debounce's closure variable: 0 = undefined or null, n > 0 = a timer id
    inThrottle,   \* throttle's closure variable
    timers,       \* the pending setTimeout timers: records [id, due, args]
    nextId,       \* the id the next setTimeout returns
    now,          \* the clock
    \* ---- what an observer of the wrapper sees (history) ----
    invocations,  \* number of invocations of the wrapper
    lastInvoke,   \* [args, at] of the last invocation
    burst,        \* number of bursts begun (a burst: invocations less than wait apart)
    burstCalls,   \* calls of func made during the current burst
    closed,       \* closed bursts by number of calls: [zero, one, many]
    calls,        \* number of calls of func
    lastCall,     \* [args, at, sync] of the last call of func
    prevCallAt,   \* time of the call of func before the last one
    lateFire,     \* some timer callback ran after its due time
    cancelledDue, \* number of clearTimeout calls that removed a timer already due
    \* ---- ReniLandingPage (lines 353-402) and its environment ----
    readyState,   \* document.readyState: "loading" or "ready" (interactive / complete)
    hasMatchMedia,\* window.matchMedia is a function
    modules,      \* this.modules: name -> [present, inst, hook]
    isInitialized,\* this.isInitialized
    initPc,       \* each init() call: "notCalled", "waiting" (at the await, l.363), "done"
    objects,      \* number of objects created so far (the next one's identity)
    \* ---- what an observer of the page sees (history) ----
    constructed,  \* number of module constructors that returned
    listeners,    \* number of addEventListener calls made by init() and the constructors
    failures,     \* number of console.error calls of init()'s catch (l.384)
    hookCalls,    \* name -> number of calls of that module's destroy hook
    destroys,     \* number of destroy() calls
    attaches,     \* number of modules the client put into modules
    lastOp,       \* the last operation on the page: "none", "init", "attach", "destroy",
                  \* "destroyAgain" (a destroy() right after a destroy())
    \* ---- viewport activation: AnimationManager (l.117-180), services handler (l.601-652) ----
    reducedMotion,    \* matchMedia('(prefers-reduced-motion: reduce)').matches
    hasIO,            \* 'IntersectionObserver' in window
    animPc,           \* new AnimationManager() (l.372): "todo", "done"
    svcPc,            \* the services DOMContentLoaded handler (l.601): "todo", "done", "raised"
    svcRest,          \* the handler ran its steps after the observers (l.658-1003)
    opacity,          \* element -> style.opacity: "" (not set), "0", "1"
    transform,        \* element -> style.transform: "" (not set) or the value written
    classes,          \* element -> the classes added by the script
    animatedElements, \* AnimationManager.animatedElements
    observed,         \* observer -> the targets it observes
    isect,            \* observer -> target -> what its last queued entry said: "unknown", "in", "out"
    queue,            \* observer -> the entries queued for its next callback
    \* ---- what an observer of the page sees (history) ----
    acts,             \* observer -> target -> number of times the activation was performed
    observeCalls,     \* number of observe() calls
    crossings,        \* number of entries the browser queued
    delivered,        \* observer -> the targets it was called with an intersecting entry of
    stagger,          \* the stagger timers set so far: [id, batch, index, at, firedAt]
                      \* (batch: first timer id of the callback that set it, index: its
                      \* entry's batch position, at: when, firedAt: NotFired while pending)
    \* ---- the typewriter of the hero handler (l.503-543, l.584-585) ----
    subtitles,        \* the subtitles array (l.504)
    subtitlePresent,  \* document.querySelector('.subtitle') finds an element
    hasHero,          \* document.querySelector('.hero') finds an element
    heroPc,           \* the hero DOMContentLoaded handler (l.485): "todo", "done", "raised"
    subtitleIndex,    \* l.511
    charIndex,        \* l.512
    isDeleting,       \* l.513
    innerHTML,        \* subtitle.innerHTML: [text, span]
    twTimers,         \* the delays of the pending setTimeout(typeWriter, delay) timers
    \* ---- what an observer of the typewriter sees (history) ----
    renders,          \* the texts written to the subtitle, the first MaxRenders of them
    typed,            \* typing steps of the current round
    deleted,          \* deleting steps of the current round
    rounds,           \* completed rounds, modulo the number of subtitles
    lastRound,        \* [index, typed, deleted] of the last completed round
    aborted,          \* some typeWriter step found no .subtitle
    stepParity,       \* number of typeWriter executions, modulo 2
    \* ---- pointer and scroll handlers ----
    style,            \* style property -> its value
    frameWrites,      \* style property -> writes of a computed value since the last frame
    ticking,          \* l.775
    rafPending,       \* number of pending requestAnimationFrame(updateParallax) callbacks
    scrollTimer,      \* the timer of optimizedScroll (l.1001) is pending
    scrollY,          \* window.pageYOffset
    \* ---- what an observer of the handlers sees (history) ----
    lastMove,         \* the pointer position of the last mousemove, 0 before the first
    owed,             \* a scroll event happened and updateParallax has not run since
    scrollSeq,        \* parity of the number of scroll events
    runsSinceFire,    \* runs of updateParallax since the timer of optimizedScroll last ran
    \* ---- PerformanceMonitor (l.14-72) ----
    metrics,          \* this.metrics: key -> value, NoMetric for a key not yet set
    clsValue,         \* l.47
    perfCalls,        \* number of performance-observer callbacks (history)
    \* ---- ContactManager click handlers (l.208-226) ----
    hasGtag,          \* window.gtag is defined
    gtagCalls,        \* number of calls of gtag
    logLines,         \* link kind -> number of 'contact initiated' lines logged
    raised,           \* number of click handlers left by an exception
    clicks            \* number of clicks on contact links (history)

rateVars == <<kind, wait, immediate, timeout, inThrottle, timers, nextId, now,
              invocations, lastInvoke, burst, burstCalls, closed, calls,
              lastCall, prevCallAt, lateFire, cancelledDue>>

pageVars == <<readyState, hasMatchMedia, modules, isInitialized, initPc, objects,
              constructed, listeners, failures, hookCalls, destroys, attaches,
              lastOp>>

obsVars == <<reducedMotion, hasIO, animPc, svcPc, svcRest, opacity, transform,
             classes, animatedElements, observed, isect, queue, acts,
             observeCalls, crossings, delivered, stagger>>

heroVars == <<subtitles, subtitlePresent, hasHero, heroPc, subtitleIndex, charIndex,
              isDeleting, innerHTML, twTimers, renders, typed, deleted, rounds,
              lastRound, aborted, stepParity>>

ptrVars == <<style, frameWrites, ticking, rafPending, scrollTimer, scrollY,
             lastMove, owed, scrollSeq, runsSinceFire>>

perfVars == <<metrics, clsValue, perfCalls>>

clickVars == <<hasGtag, gtagCalls, logLines, raised, clicks>>

vars == <<rateVars, pageVars, obsVars, heroVars, ptrVars, perfVars, clickVars>>

----------------------------------------------------------------------------
(* Bounds of the model.                                                    *)

MaxTime == 5
MaxInvocations == 4
WaitA == 2

Args == {"a", "b"}
Waits == {0, WaitA}
Kinds == {"debounce", "debounceSvc", "throttle"}

NoInvoke == [args |-> "none", at |-> -1]
NoCall == [args |-> "none", at |-> -1, sync |-> FALSE]
NoClosed == [zero |-> 0, one |-> 0, many |-> 0]

----------------------------------------------------------------------------
(* setTimeout / clearTimeout on the set of pending timers.                 *)

SetTimeout(ts, id, delay, a) == ts \cup {[id |-> id, due |-> now + delay, args |-> a]}

ClearTimeout(ts, id) == {t \in ts : t.id # id}

\* History of a clearTimeout(id): whether it removes a timer whose time had come.
ObserveClear(id) ==
    cancelledDue' = cancelledDue + (IF \E t \in timers : t.id = id /\ t.due <= now THEN 1 ELSE 0)

\* The timer task the event loop may run next: due, and first among the due
\* ones by (due time, creation order).
Runnable(t) ==
    /\ t \in timers
    /\ t.due <= now
    /\ \A u \in timers : u.due > t.due \/ (u.due = t.due /\ u.id >= t.id)

----------------------------------------------------------------------------
(* History: what one step does as seen from outside the wrapper.           *)
(* isInvoke: the step is an invocation of the wrapper with argument a;     *)
(* called: the step calls func, with argument ca, synchronously or not.    *)

BurstSlot(n) == IF n = 0 THEN "zero" ELSE IF n = 1 THEN "one" ELSE "many"

Observe(isInvoke, a, called, ca, isSync) ==
    LET newBurst == isInvoke /\ (lastInvoke.at < 0 \/ now - lastInvoke.at >= wait)
        base == IF newBurst THEN 0 ELSE burstCalls
    IN  /\ invocations' = IF isInvoke THEN invocations + 1 ELSE invocations
        /\ lastInvoke' = IF isInvoke THEN [args |-> a, at |-> now] ELSE lastInvoke
        /\ burst' = IF newBurst THEN burst + 1 ELSE burst
        /\ closed' = IF newBurst /\ burst > 0
                     THEN [closed EXCEPT ![BurstSlot(burstCalls)] = @ + 1]
                     ELSE closed
        /\ burstCalls' = base + (IF called THEN 1 ELSE 0)
        /\ calls' = IF called THEN calls + 1 ELSE calls
        /\ lastCall' = IF called THEN [args |-> ca, at |-> now, sync |-> isSync] ELSE lastCall
        /\ prevCallAt' = IF called THEN lastCall.at ELSE prevCallAt

----------------------------------------------------------------------------
(* debounce(func, wait, immediate), lines 424-436.                         *)

\* A debounce that forgets clearTimeout(timeout) before re-arming.
DebounceInvokeNoClear(a) ==
    LET callNow == immediate /\ timeout = 0
    IN  /\ timers' = SetTimeout(timers, nextId, wait, a)
        /\ timeout' = nextId
        /\ nextId' = nextId + 1
        /\ UNCHANGED <<inThrottle, lateFire, cancelledDue>>
        /\ Observe(TRUE, a, callNow, a, TRUE)

\* executedFunction(...args), lines 426-435
DebounceInvoke(a) ==
    LET callNow == immediate /\ timeout = 0
    IN  /\ timers' = SetTimeout(ClearTimeout(timers, timeout), nextId, wait, a)
        /\ timeout' = nextId
        /\ nextId' = nextId + 1
        /\ UNCHANGED <<inThrottle, lateFire>>
        /\ ObserveClear(timeout)
        /\ Observe(TRUE, a, callNow, a, TRUE)

\* A later() that forgets timeout = null.
DebounceLaterKeepsTimeout(t) ==
    /\ timers' = timers \ {t}
    /\ timeout' = timeout
    /\ lateFire' = (lateFire \/ t.due < now)
    /\ UNCHANGED <<inThrottle, nextId, cancelledDue>>
    /\ Observe(FALSE, "none", ~immediate, t.args, FALSE)

\* later(), lines 427-430, run by the timer t
DebounceLater(t) ==
    /\ timers' = timers \ {t}
    /\ timeout' = 0
    /\ lateFire' = (lateFire \/ t.due < now)
    /\ UNCHANGED <<inThrottle, nextId, cancelledDue>>
    /\ Observe(FALSE, "none", ~immediate, t.args, FALSE)

(* debounce(func, wait) of the services handler, lines 988-998.            *)

\* executedFunction(...args), lines 990-997
SvcDebounceInvoke(a) ==
    /\ timers' = SetTimeout(ClearTimeout(timers, timeout), nextId, wait, a)
    /\ timeout' = nextId
    /\ nextId' = nextId + 1
    /\ UNCHANGED <<inThrottle, lateFire>>
    /\ ObserveClear(timeout)
    /\ Observe(TRUE, a, FALSE, a, TRUE)

\* later(), lines 991-994: clearTimeout(timeout) of the timer that is running
SvcDebounceLater(t) ==
    /\ timers' = ClearTimeout(timers \ {t}, timeout)
    /\ lateFire' = (lateFire \/ t.due < now)
    /\ UNCHANGED <<timeout, inThrottle, nextId, cancelledDue>>
    /\ Observe(FALSE, "none", TRUE, t.args, FALSE)

(* throttle(func, limit), lines 439-450.                                   *)

\* A throttle that calls func but never enters the cooldown.
ThrottleInvokeNoCooldown(a) ==
    /\ UNCHANGED <<inThrottle, timers, nextId, timeout, lateFire, cancelledDue>>
    /\ Observe(TRUE, a, TRUE, a, TRUE)

\* the returned function, lines 441-449
ThrottleInvoke(a) ==
    IF ~inThrottle
    THEN /\ inThrottle' = TRUE
         /\ timers' = SetTimeout(timers, nextId, wait, a)
         /\ nextId' = nextId + 1
         /\ UNCHANGED <<timeout, lateFire, cancelledDue>>
         /\ Observe(TRUE, a, TRUE, a, TRUE)
    ELSE /\ UNCHANGED <<inThrottle, timers, nextId, timeout, lateFire, cancelledDue>>
         /\ Observe(TRUE, a, FALSE, a, TRUE)

\* A throttle whose timer replays the invocation that armed it (a trailing call).
ThrottleTimerReplay(t) ==
    /\ timers' = timers \ {t}
    /\ inThrottle' = FALSE
    /\ lateFire' = (lateFire \/ t.due < now)
    /\ UNCHANGED <<timeout, nextId, cancelledDue>>
    /\ Observe(FALSE, "none", TRUE, t.args, FALSE)

\* () => inThrottle = false, line 447, run by the timer t
ThrottleTimer(t) ==
    /\ timers' = timers \ {t}
    /\ inThrottle' = FALSE
    /\ lateFire' = (lateFire \/ t.due < now)
    /\ UNCHANGED <<timeout, nextId, cancelledDue>>
    /\ Observe(FALSE, "none", FALSE, "none", FALSE)

----------------------------------------------------------------------------
(* ReniLandingPage, lines 353-402, and the module constructors it calls.   *)

\* The modules init() constructs, in the order of lines 369-374.
ModuleOrder == <<"errorManager", "performanceMonitor", "smoothScrollManager",
                 "animationManager", "contactManager", "accessibilityManager">>

OwnModules == {ModuleOrder[i] : i \in 1..Len(ModuleOrder)}

\* A module put into modules by the page's client through the exported
\* instance (window.ReniLandingPage, line 417; module.exports, line 481).
ClientModule == "plugin"

ModuleNames == OwnModules \cup {ClientModule}

Absent == [present |-> FALSE, inst |-> 0, hook |-> FALSE]

NoModules == [n \in ModuleNames |-> Absent]

\* addEventListener calls of each constructor, on a page with one mailto link,
\* one tel link, one .btn and one .skip-link: ErrorManager l.324-325,
\* SmoothScrollManager l.85, ContactManager l.195, 201, 232, 238,
\* AccessibilityManager l.264, 301, 307.
ListenersOf(n) ==
    CASE n = "errorManager" -> 2
      [] n = "smoothScrollManager" -> 1
      [] n = "contactManager" -> 4
      [] n = "accessibilityManager" -> 3
      [] OTHER -> 0

\* Whether the constructor of module n throws: AnimationManager.init calls
\* window.matchMedia unguarded (l.126); PerformanceMonitor guards its observers
\* (l.22, l.27-60); the others only query the document and add listeners.
Throws(n) == n = "animationManager" /\ ~hasMatchMedia

\* None of the six classes defines a destroy method.
HasDestroyHook(n) == FALSE

\* The state init() and destroy() work on, as one value.
PageState == [modules |-> modules, isInitialized |-> isInitialized,
              objects |-> objects, constructed |-> constructed,
              listeners |-> listeners, failures |-> failures]

\* Lines 369-376 from the i-th module on, and the catch of lines 383-385: a
\* constructor that throws ends the try block.
RECURSIVE ConstructFrom(_, _)
ConstructFrom(st, i) ==
    IF i > Len(ModuleOrder)
    THEN [st EXCEPT !.isInitialized = TRUE]
    ELSE LET n == ModuleOrder[i]
         IN  IF Throws(n)
             THEN [st EXCEPT !.failures = @ + 1]
             ELSE ConstructFrom(
                    [st EXCEPT !.modules[n] = [present |-> TRUE,
                                                inst |-> st.objects + 1,
                                                hook |-> HasDestroyHook(n)],
                               !.objects = @ + 1,
                               !.constructed = @ + 1,
                               !.listeners = @ + ListenersOf(n)],
                    i + 1)

\* The body of init() after the await, lines 368-385.
InitBody(st) == ConstructFrom(st, 1)

SetPage(st) ==
    /\ modules' = st.modules
    /\ isInitialized' = st.isInitialized
    /\ objects' = st.objects
    /\ constructed' = st.constructed
    /\ listeners' = st.listeners
    /\ failures' = st.failures

\* A destroy() that forgets to clear this.modules (line 399).
DestroyKeepingModules ==
    /\ hookCalls' = [n \in ModuleNames |->
                        hookCalls[n] + (IF modules[n].present /\ modules[n].hook THEN 1 ELSE 0)]
    /\ modules' = modules
    /\ isInitialized' = FALSE

\* destroy(), lines 392-401.
DestroyBody ==
    /\ hookCalls' = [n \in ModuleNames |->
                        hookCalls[n] + (IF modules[n].present /\ modules[n].hook THEN 1 ELSE 0)]
    /\ modules' = NoModules
    /\ isInitialized' = FALSE

IdlePage ==
    /\ readyState = "ready"
    /\ hasMatchMedia = TRUE
    /\ modules = NoModules
    /\ isInitialized = FALSE
    /\ initPc = <<>>
    /\ objects = 0
    /\ constructed = 0
    /\ listeners = 0
    /\ failures = 0
    /\ hookCalls = [n \in ModuleNames |-> 0]
    /\ destroys = 0
    /\ attaches = 0
    /\ lastOp = "none"

IdleRate ==
    /\ kind = "throttle"
    /\ wait = 0
    /\ immediate = FALSE
    /\ timeout = 0
    /\ inThrottle = FALSE
    /\ timers = {}
    /\ nextId = 1
    /\ now = 0
    /\ invocations = 0
    /\ lastInvoke = NoInvoke
    /\ burst = 0
    /\ burstCalls = 0
    /\ closed = NoClosed
    /\ calls = 0
    /\ lastCall = NoCall
    /\ prevCallAt = -1
    /\ lateFire = FALSE
    /\ cancelledDue = 0

----------------------------------------------------------------------------
(* Viewport activation: AnimationManager (lines 117-180) and the observers *)
(* of the services handler (lines 607-652).                                *)

\* The page: one .section, two .service-item, and the title and subtitle of
\* the services section.
Elements == {"section", "item1", "item2", "title", "subtitle"}

\* querySelectorAll('.section, .service-item, .benefit-item, .experience-item'), l.159, l.174
AnimTargets == {"section", "item1", "item2"}

\* querySelectorAll('.service-item'), l.613
ServiceItems == {"item1", "item2"}

\* '.services .section-title' and '.services .section-subtitle', l.639-640
TitleTargets == {"title", "subtitle"}

Observers == {"anim", "service", "title"}

TargetsOf(o) ==
    CASE o = "anim" -> AnimTargets
      [] o = "service" -> ServiceItems
      [] o = "title" -> TitleTargets

\* The delay of the stagger timer per batch position, l.623.
StaggerStep == 100

\* The state the setup code and the observer callbacks work on, as one value.
ObsState == [opacity |-> opacity, transform |-> transform, classes |-> classes,
             animated |-> animatedElements, observed |-> observed, acts |-> acts,
             observeCalls |-> observeCalls, timers |-> timers, nextId |-> nextId]

SetObs(st) ==
    /\ opacity' = st.opacity
    /\ transform' = st.transform
    /\ classes' = st.classes
    /\ animatedElements' = st.animated
    /\ observed' = st.observed
    /\ acts' = st.acts
    /\ observeCalls' = st.observeCalls
    /\ timers' = st.timers
    /\ nextId' = st.nextId

\* An unobserve that leaves the target observed.
UnobserveNone(st, o, e) == st

\* observer.unobserve(e)
Unobserve(st, o, e) == [st EXCEPT !.observed[o] = @ \ {e}]

\* AnimationManager.animateElement, l.167-171
AnimateElement(st, e) ==
    [st EXCEPT !.opacity[e] = "1",
               !.transform[e] = "translateY(0)",
               !.acts["anim"][e] = @ + 1]

\* AnimationManager.addFallbackAnimations, l.173-179
AddFallbackAnimations(st) ==
    [st EXCEPT !.opacity = [e \in Elements |-> IF e \in AnimTargets THEN "1" ELSE @[e]],
               !.transform = [e \in Elements |->
                                 IF e \in AnimTargets THEN "translateY(0)" ELSE @[e]]]

\* AnimationManager.observeElements, l.158-165
ObserveElements(st) ==
    [st EXCEPT !.opacity = [e \in Elements |-> IF e \in AnimTargets THEN "0" ELSE @[e]],
               !.transform = [e \in Elements |->
                                 IF e \in AnimTargets THEN "translateY(30px)" ELSE @[e]],
               !.observed["anim"] = @ \cup AnimTargets,
               !.observeCalls = @ + Cardinality(AnimTargets)]

\* AnimationManager.init, l.124-138
AnimationManagerInit(st) ==
    IF reducedMotion THEN st
    ELSE IF ~hasIO THEN AddFallbackAnimations(st)
    ELSE ObserveElements(st)

\* The callback of AnimationManager's observer, l.147-155, from entries[i] on.
RECURSIVE AnimCallback(_, _, _)
AnimCallback(st, entries, i) ==
    IF i > Len(entries) THEN st
    ELSE LET e == entries[i].target
         IN  IF entries[i].isIntersecting /\ e \notin st.animated
             THEN AnimCallback(
                    Unobserve([AnimateElement(st, e) EXCEPT !.animated = @ \cup {e}],
                              "anim", e),
                    entries, i + 1)
             ELSE AnimCallback(st, entries, i + 1)

\* A serviceObserver whose stagger counts down from the end of the batch.
RECURSIVE ServiceCallbackReversed(_, _, _)
ServiceCallbackReversed(st, entries, i) ==
    IF i > Len(entries) THEN st
    ELSE LET e == entries[i].target
         IN  IF entries[i].isIntersecting
             THEN ServiceCallbackReversed(
                    Unobserve([st EXCEPT !.timers = SetTimeout(@, st.nextId,
                                                               (Len(entries) - i) * StaggerStep, e),
                                         !.nextId = @ + 1],
                              "service", e),
                    entries, i + 1)
             ELSE ServiceCallbackReversed(st, entries, i + 1)

\* The callback of serviceObserver, l.615-628, from entries[i] on; the batch
\* position index of entries[i] is i - 1.
RECURSIVE ServiceCallback(_, _, _)
ServiceCallback(st, entries, i) ==
    IF i > Len(entries) THEN st
    ELSE LET e == entries[i].target
         IN  IF entries[i].isIntersecting
             THEN ServiceCallback(
                    Unobserve([st EXCEPT !.timers = SetTimeout(@, st.nextId,
                                                               (i - 1) * StaggerStep, e),
                                         !.nextId = @ + 1],
                              "service", e),
                    entries, i + 1)
             ELSE ServiceCallback(st, entries, i + 1)

\* The stagger timer's callback, l.619-623.
ServiceActivate(st, e) ==
    [st EXCEPT !.classes[e] = @ \cup {"animate-in"},
               !.opacity[e] = "1",
               !.transform[e] = "translateY(0)",
               !.acts["service"][e] = @ + 1]

\* The callback of titleObserver, l.642-649, from entries[i] on.
RECURSIVE TitleCallback(_, _, _)
TitleCallback(st, entries, i) ==
    IF i > Len(entries) THEN st
    ELSE LET e == entries[i].target
         IN  IF entries[i].isIntersecting
             THEN TitleCallback(
                    Unobserve([st EXCEPT !.classes[e] = @ \cup {"animate-title"},
                                         !.acts["title"][e] = @ + 1],
                              "title", e),
                    entries, i + 1)
             ELSE TitleCallback(st, entries, i + 1)

\* The services handler from the creation of serviceObserver to the last
\* observe(), l.607-652, with IntersectionObserver defined.
ServicesObservers(st) ==
    [st EXCEPT !.opacity = [e \in Elements |-> IF e \in ServiceItems THEN "0" ELSE @[e]],
               !.transform = [e \in Elements |->
                                 IF e \in ServiceItems THEN "translateY(30px)" ELSE @[e]],
               !.observed["service"] = @ \cup ServiceItems,
               !.observed["title"] = @ \cup TitleTargets,
               !.observeCalls = @ + Cardinality(ServiceItems) + Cardinality(TitleTargets)]

IdleObs ==
    /\ reducedMotion = FALSE
    /\ hasIO = TRUE
    /\ animPc = "todo"
    /\ svcPc = "todo"
    /\ svcRest = FALSE
    /\ opacity = [e \in Elements |-> ""]
    /\ transform = [e \in Elements |-> ""]
    /\ classes = [e \in Elements |-> {}]
    /\ animatedElements = {}
    /\ observed = [o \in Observers |-> {}]
    /\ isect = [o \in Observers |-> [e \in Elements |-> "unknown"]]
    /\ queue = [o \in Observers |-> <<>>]
    /\ acts = [o \in Observers |-> [e \in Elements |-> 0]]
    /\ observeCalls = 0
    /\ crossings = 0
    /\ delivered = [o \in Observers |-> {}]
    /\ stagger = {}

----------------------------------------------------------------------------
(* The typewriter of the hero handler, lines 503-543 and 584-585. A string *)
(* is a sequence of characters; indices into subtitles are 0-based in the  *)
(* code and 1-based in a TLA+ sequence.                                    *)

MaxLen == 2
MaxSubtitles == 2
MaxRenders == 6

\* The strings the subtitles are drawn from: "a", "ab", "aba", ... and
\* "c", "cd", "cdc", ... up to MaxLen characters.
Word(first, second, n) == [k \in 1..n |-> IF k % 2 = 1 THEN first ELSE second]

Words == {Word("a", "b", n) : n \in 1..MaxLen} \cup {Word("c", "d", n) : n \in 1..MaxLen}

\* The subtitles array, l.504-509: any non-empty list of non-empty strings.
SubtitleLists == UNION {[1..n -> Words] : n \in 1..MaxSubtitles}

\* The delays of the typewriter's timers, in ms: l.585, l.528, l.537, l.542.
TypeDelays == [start |-> 1000, afterDelete |-> 500, afterType |-> 2000,
               deleting |-> 50, typing |-> 100]

\* String.prototype.substring(from, to): both arguments clamped to
\* [0, length], swapped when from > to; the characters from..to-1 (0-based).
SubstringInclusive(s, from, to) ==
    LET clamp(x) == IF x < 0 THEN 0 ELSE IF x > Len(s) THEN Len(s) ELSE x
        lo == IF clamp(from) <= clamp(to) THEN clamp(from) ELSE clamp(to)
        hi == IF clamp(from) <= clamp(to) THEN clamp(to) ELSE clamp(from)
    IN  SubSeq(s, lo + 1, IF hi < Len(s) THEN hi + 1 ELSE hi)

Substring(s, from, to) ==
    LET clamp(x) == IF x < 0 THEN 0 ELSE IF x > Len(s) THEN Len(s) ELSE x
        lo == IF clamp(from) <= clamp(to) THEN clamp(from) ELSE clamp(to)
        hi == IF clamp(from) <= clamp(to) THEN clamp(to) ELSE clamp(from)
    IN  SubSeq(s, lo + 1, hi)

\* What the typewriter writes to subtitle.innerHTML: the text followed by the
\* cursor span, l.522, l.532.
Html(text) == [text |-> text, span |-> TRUE]

\* The subtitle's content before the typewriter writes: the page's markup.
Markup == [text |-> <<"markup">>, span |-> FALSE]

\* The closure variables of the handler and the element, as one value.
TypeState == [subtitleIndex |-> subtitleIndex, charIndex |-> charIndex,
              isDeleting |-> isDeleting, innerHTML |-> innerHTML,
              twTimers |-> twTimers]

SetType(st) ==
    /\ subtitleIndex' = st.subtitleIndex
    /\ charIndex' = st.charIndex
    /\ isDeleting' = st.isDeleting
    /\ innerHTML' = st.innerHTML
    /\ twTimers' = st.twTimers

\* A deleting branch that turns one step late (charIndex === -1).
DeleteBranchLateTurn(st, currentText) ==
    LET r == [st EXCEPT !.innerHTML = Html(Substring(currentText, 0, st.charIndex - 1)),
                        !.charIndex = @ - 1]
    IN  IF r.charIndex = -1
        THEN [r EXCEPT !.isDeleting = FALSE,
                       !.subtitleIndex = (@ + 1) % Len(subtitles),
                       !.twTimers = Append(@, TypeDelays.afterDelete)]
        ELSE [r EXCEPT !.twTimers = Append(@, TypeDelays.deleting)]

\* A deleting branch that starts over with the same subtitle.
DeleteBranchKeepIndex(st, currentText) ==
    LET r == [st EXCEPT !.innerHTML = Html(Substring(currentText, 0, st.charIndex - 1)),
                        !.charIndex = @ - 1]
    IN  IF r.charIndex = 0
        THEN [r EXCEPT !.isDeleting = FALSE,
                       !.twTimers = Append(@, TypeDelays.afterDelete)]
        ELSE [r EXCEPT !.twTimers = Append(@, TypeDelays.deleting)]

\* The deleting branch of typeWriter, l.521-530 and l.542.
DeleteBranch(st, currentText) ==
    LET r == [st EXCEPT !.innerHTML = Html(Substring(currentText, 0, st.charIndex - 1)),
                        !.charIndex = @ - 1]
    IN  IF r.charIndex = 0
        THEN [r EXCEPT !.isDeleting = FALSE,
                       !.subtitleIndex = (@ + 1) % Len(subtitles),
                       !.twTimers = Append(@, TypeDelays.afterDelete)]
        ELSE [r EXCEPT !.twTimers = Append(@, TypeDelays.deleting)]

\* A typing branch that returns at the end of the string without a timer.
TypeBranchNoPause(st, currentText) ==
    LET r == [st EXCEPT !.innerHTML = Html(Substring(currentText, 0, st.charIndex + 1)),
                        !.charIndex = @ + 1]
    IN  IF r.charIndex = Len(currentText)
        THEN [r EXCEPT !.isDeleting = TRUE]
        ELSE [r EXCEPT !.twTimers = Append(@, TypeDelays.typing)]

\* A typing branch without the return of l.538: it falls through to l.542.
TypeBranchNoReturn(st, currentText) ==
    LET r == [st EXCEPT !.innerHTML = Html(Substring(currentText, 0, st.charIndex + 1)),
                        !.charIndex = @ + 1]
    IN  IF r.charIndex = Len(currentText)
        THEN [r EXCEPT !.isDeleting = TRUE,
                       !.twTimers = Append(Append(@, TypeDelays.afterType),
                                           TypeDelays.deleting)]
        ELSE [r EXCEPT !.twTimers = Append(@, TypeDelays.typing)]

\* The typing branch of typeWriter, l.531-539 and l.542.
TypeBranch(st, currentText) ==
    LET r == [st EXCEPT !.innerHTML = Html(Substring(currentText, 0, st.charIndex + 1)),
                        !.charIndex = @ + 1]
    IN  IF r.charIndex = Len(currentText)
        THEN [r EXCEPT !.isDeleting = TRUE,
                       !.twTimers = Append(@, TypeDelays.afterType)]
        ELSE [r EXCEPT !.twTimers = Append(@, TypeDelays.typing)]

\* A typeWriter that polls for the element instead of returning.
TypeWriterRetry(st) ==
    IF ~subtitlePresent THEN [st EXCEPT !.twTimers = Append(@, TypeDelays.typing)]
    ELSE IF st.isDeleting
         THEN DeleteBranch(st, subtitles[st.subtitleIndex + 1])
         ELSE TypeBranch(st, subtitles[st.subtitleIndex + 1])

\* typeWriter, l.515-543, run by its timer (already removed from st.twTimers).
TypeWriter(st) ==
    IF ~subtitlePresent THEN st
    ELSE IF st.isDeleting
         THEN DeleteBranch(st, subtitles[st.subtitleIndex + 1])
         ELSE TypeBranch(st, subtitles[st.subtitleIndex + 1])

NoRound == [index |-> -1, typed |-> 0, deleted |-> 0]

IdleHero ==
    /\ subtitles = <<Word("a", "b", 1)>>
    /\ subtitlePresent = TRUE
    /\ hasHero = TRUE
    /\ heroPc = "todo"
    /\ subtitleIndex = 0
    /\ charIndex = 0
    /\ isDeleting = FALSE
    /\ innerHTML = Markup
    /\ twTimers = <<>>
    /\ renders = <<>>
    /\ typed = 0
    /\ deleted = 0
    /\ rounds = 0
    /\ lastRound = NoRound
    /\ aborted = FALSE
    /\ stepParity = 0

----------------------------------------------------------------------------
(* The pointer and scroll handlers: .btn hover (l.228-242), the hero       *)
(* handlers (l.546-570, l.588-594), the service-item tilt (l.664-687) and  *)
(* the services scroll parallax (l.775-800, l.1001-1003).                  *)

MaxPos == 2
MaxFrameWrites == 2

\* Where the pointer is, or how far the page is scrolled: what a handler
\* computes its value from.
Positions == 1..MaxPos

\* The style properties the handlers write, one surface each.
Props == {"heroButton.transform", "heroContent.transform", "heroContent.boxShadow",
          "item.transform", "btn.transform", "services.backgroundPositionY"}

TransformProps == {"heroButton.transform", "heroContent.transform",
                   "item.transform", "btn.transform"}

\* The values of a style property: not written by the script, computed from
\* the event, the reset of a mouseleave handler, the hover lift of l.234.
Rest == [kind |-> "rest", arg |-> 0]
Computed(p) == [kind |-> "computed", arg |-> p]
Neutral == [kind |-> "neutral", arg |-> 0]
Lift == [kind |-> "lift", arg |-> 0]

\* The state the handlers work on, as one value.
PtrState == [style |-> style, frameWrites |-> frameWrites, ticking |-> ticking,
             rafPending |-> rafPending, scrollTimer |-> scrollTimer,
             scrollY |-> scrollY]

SetPtr(st) ==
    /\ style' = st.style
    /\ frameWrites' = st.frameWrites
    /\ ticking' = st.ticking
    /\ rafPending' = st.rafPending
    /\ scrollTimer' = st.scrollTimer
    /\ scrollY' = st.scrollY

\* element.style.<property> = v; frameWrites counts the writes of a value
\* computed from an event.
WriteStyle(st, prop, v) ==
    [st EXCEPT !.style[prop] = v,
               !.frameWrites[prop] = IF v.kind = "computed" THEN @ + 1 ELSE @]

\* The mousemove listener of .hero-button, l.547-553.
MagneticMove(st, p) == WriteStyle(st, "heroButton.transform", Computed(p))

\* The mouseleave listener of .hero-button, l.555-557.
MagneticLeave(st) == WriteStyle(st, "heroButton.transform", Neutral)

\* The mousemove listener of document, l.561-570, with .hero-content present.
HeroParallax(st, p) == WriteStyle(st, "heroContent.transform", Computed(p))

\* A scroll listener that writes the glow into the transform.
ScrollGlowOnTransform(st) == WriteStyle(st, "heroContent.transform", Computed(st.scrollY))

\* The scroll listener of the hero handler, l.588-594.
ScrollGlow(st) == WriteStyle(st, "heroContent.boxShadow", Computed(st.scrollY))

\* The mousemove listener of a .service-item, l.664-682.
TiltMove(st, p) == WriteStyle(st, "item.transform", Computed(p))

\* The mouseleave listener of a .service-item, l.685-687.
TiltLeave(st) == WriteStyle(st, "item.transform", Neutral)

\* The mouseenter listener of a .btn, l.232-236.
HoverEnter(st) ==
    IF ~reducedMotion THEN WriteStyle(st, "btn.transform", Lift) ELSE st

\* The mouseleave listener of a .btn, l.238-240.
HoverLeave(st) == WriteStyle(st, "btn.transform", Neutral)

\* optimizedScroll, l.1001: debounce(requestTick, 10) of l.988-998 clears the
\* pending timer and sets a new one.
OptimizedScroll(st) == [st EXCEPT !.scrollTimer = TRUE]

\* A requestTick without the ticking test.
RequestTickUnguarded(st) == [st EXCEPT !.rafPending = @ + 1, !.ticking = TRUE]

\* requestTick, l.793-798.
RequestTick(st) ==
    IF ~st.ticking THEN [st EXCEPT !.rafPending = @ + 1, !.ticking = TRUE] ELSE st

\* The listeners of window's scroll event in the order they were added:
\* the glow (l.588), requestTick (l.800) removed again (l.1002),
\* optimizedScroll (l.1003).
AddListener(ls, f) == IF \E i \in 1..Len(ls) : ls[i] = f THEN ls ELSE Append(ls, f)

RemoveListener(ls, f) == SelectSeq(ls, LAMBDA g : g # f)

ScrollListeners ==
    AddListener(RemoveListener(AddListener(AddListener(<<>>, "glow"), "requestTick"),
                               "requestTick"),
                "optimizedScroll")

\* The dispatch of a scroll event to the listeners ls[i], ls[i + 1], ...
RECURSIVE DispatchScroll(_, _, _)
DispatchScroll(st, ls, i) ==
    IF i > Len(ls) THEN st
    ELSE DispatchScroll(CASE ls[i] = "glow" -> ScrollGlow(st)
                          [] ls[i] = "requestTick" -> RequestTick(st)
                          [] ls[i] = "optimizedScroll" -> OptimizedScroll(st),
                        ls, i + 1)

\* updateParallax, l.776-791, with .services present; inView is the test of l.784.
UpdateParallax(st, inView) ==
    [(IF inView
      THEN WriteStyle(st, "services.backgroundPositionY", Computed(st.scrollY))
      ELSE st) EXCEPT !.ticking = FALSE]

\* An animation frame runs the pending callbacks, one after the other.
RECURSIVE RunFrameCallbacks(_, _)
RunFrameCallbacks(st, inView) ==
    IF st.rafPending = 0 THEN st
    ELSE RunFrameCallbacks(UpdateParallax([st EXCEPT !.rafPending = @ - 1], inView), inView)

IdlePtr ==
    /\ style = [q \in Props |-> Rest]
    /\ frameWrites = [q \in Props |-> 0]
    /\ ticking = FALSE
    /\ rafPending = 0
    /\ scrollTimer = FALSE
    /\ scrollY = 0
    /\ lastMove = 0
    /\ owed = FALSE
    /\ scrollSeq = 0
    /\ runsSinceFire = 0

----------------------------------------------------------------------------
(* PerformanceMonitor, lines 14-72: the callbacks of its three performance *)
(* observers.                                                              *)

MaxMetric == 2
MaxCls == 3
MaxPerfCalls == 3

\* this.metrics has no such key yet.
NoMetric == -1

MetricKeys == {"LCP", "FID", "CLS"}

\* The values an entry can carry: lastEntry.renderTime || lastEntry.loadTime
\* (l.33), entry.processingStart - entry.startTime (l.41), entry.value (l.51).
MetricValues == 1..MaxMetric

\* The callback of lcpObserver, l.30-35, with v the time of the last entry.
LcpCallback(m, v) == [m EXCEPT !["LCP"] = v]

\* The callback of fidObserver, l.39-43, with v the delay of the first entry.
FidCallback(m, v) == [m EXCEPT !["FID"] = v]

\* The callback of clsObserver, l.48-56, with shift the sum of entry.value
\* over the entries without recent input: the new clsValue and metrics.
ClsCallback(m, cls, shift) == [clsValue |-> cls + shift,
                               metrics |-> [m EXCEPT !["CLS"] = cls + shift]]

IdlePerf ==
    /\ metrics = [k \in MetricKeys |-> NoMetric]
    /\ clsValue = 0
    /\ perfCalls = 0

----------------------------------------------------------------------------
(* ContactManager.trackEmailClick / trackPhoneClick, lines 208-226.        *)

MaxClicks == 3

LinkKinds == {"email", "phone"}

\* The state the click handlers work on, as one value.
ClickState == [gtagCalls |-> gtagCalls, logLines |-> logLines, raised |-> raised]

SetClick(st) ==
    /\ gtagCalls' = st.gtagCalls
    /\ logLines' = st.logLines
    /\ raised' = st.raised

\* trackEmailClick (l.208-216) / trackPhoneClick (l.218-226) for a link of
\* kind k; throws: the call of gtag raises an exception, which leaves the
\* handler at l.210 / l.220, before console.log.
TrackClick(st, k, throws) ==
    IF hasGtag
    THEN IF throws
         THEN [st EXCEPT !.gtagCalls = @ + 1, !.raised = @ + 1]
         ELSE [st EXCEPT !.gtagCalls = @ + 1, !.logLines[k] = @ + 1]
    ELSE [st EXCEPT !.logLines[k] = @ + 1]

IdleClick ==
    /\ hasGtag = FALSE
    /\ gtagCalls = 0
    /\ logLines = [k \in LinkKinds |-> 0]
    /\ raised = 0
    /\ clicks = 0

----------------------------------------------------------------------------
(* SpecRate: one wrapper, invoked at arbitrary times with arbitrary        *)
(* arguments; timers run when due or later.                                *)

InitWrapper ==
    /\ timeout = 0
    /\ inThrottle = FALSE
    /\ timers = {}
    /\ nextId = 1
    /\ now = 0
    /\ invocations = 0
    /\ lastInvoke = NoInvoke
    /\ burst = 0
    /\ burstCalls = 0
    /\ closed = NoClosed
    /\ calls = 0
    /\ lastCall = NoCall
    /\ prevCallAt = -1
    /\ lateFire = FALSE
    /\ cancelledDue = 0

InitRate ==
    /\ kind \in Kinds
    /\ wait \in Waits
    /\ immediate \in (IF kind = "debounce" THEN BOOLEAN ELSE {FALSE})
    /\ InitWrapper
    /\ IdlePage
    /\ IdleObs
    /\ IdleHero
    /\ IdlePtr
    /\ IdlePerf
    /\ IdleClick

UnchangedConfig == UNCHANGED <<kind, wait, immediate, pageVars, obsVars, heroVars, ptrVars, perfVars, clickVars>>

DebounceCall ==
    /\ kind = "debounce"
    /\ invocations < MaxInvocations
    /\ \E a \in Args : DebounceInvoke(a)
    /\ UNCHANGED now
    /\ UnchangedConfig

DebounceFire ==
    /\ kind = "debounce"
    /\ \E t \in timers : Runnable(t) /\ DebounceLater(t)
    /\ UNCHANGED now
    /\ UnchangedConfig

SvcDebounceCall ==
    /\ kind = "debounceSvc"
    /\ invocations < MaxInvocations
    /\ \E a \in Args : SvcDebounceInvoke(a)
    /\ UNCHANGED now
    /\ UnchangedConfig

SvcDebounceFire ==
    /\ kind = "debounceSvc"
    /\ \E t \in timers : Runnable(t) /\ SvcDebounceLater(t)
    /\ UNCHANGED now
    /\ UnchangedConfig

ThrottleCall ==
    /\ kind = "throttle"
    /\ invocations < MaxInvocations
    /\ \E a \in Args : ThrottleInvoke(a)
    /\ UNCHANGED now
    /\ UnchangedConfig

ThrottleFire ==
    /\ kind = "throttle"
    /\ \E t \in timers : Runnable(t) /\ ThrottleTimer(t)
    /\ UNCHANGED now
    /\ UnchangedConfig

Tick ==
    /\ now < MaxTime
    /\ now' = now + 1
    /\ UNCHANGED <<pageVars, obsVars, heroVars, ptrVars, perfVars, clickVars>>
    /\ UNCHANGED <<kind, wait, immediate, timeout, inThrottle, timers, nextId,
                   invocations, lastInvoke, burst, burstCalls, closed, calls,
                   lastCall, prevCallAt, lateFire, cancelledDue>>

NextRate ==
    \/ DebounceCall
    \/ DebounceFire
    \/ SvcDebounceCall
    \/ SvcDebounceFire
    \/ ThrottleCall
    \/ ThrottleFire
    \/ Tick

SpecRate == InitRate /\ [][NextRate]_vars

----------------------------------------------------------------------------
(* SpecThrottleRun: a throttled counter invoked once every period for a    *)
(* duration. One time unit of the run is 10 ms: the wrapper's window of    *)
(* 100 ms is 10 units, the period of 10 ms is 1 unit, the 1000 ms are 100  *)
(* units. Invocations happen at the instants 0, 1, ..., duration - 1; the  *)
(* cooldown timer runs at its due instant, before or after the invocation  *)
(* of that instant, or later.                                              *)

Run == [window |-> 10, period |-> 1, duration |-> 100]

InitRun ==
    /\ kind = "throttle"
    /\ wait = Run.window
    /\ immediate = FALSE
    /\ InitWrapper
    /\ IdlePage
    /\ IdleObs
    /\ IdleHero
    /\ IdlePtr
    /\ IdlePerf
    /\ IdleClick

RunInvoke ==
    /\ now < Run.duration
    /\ now % Run.period = 0
    /\ lastInvoke.at < now
    /\ ThrottleInvoke("a")
    /\ UNCHANGED now
    /\ UnchangedConfig

RunFire ==
    /\ \E t \in timers : Runnable(t) /\ ThrottleTimer(t)
    /\ UNCHANGED now
    /\ UnchangedConfig

RunTick ==
    /\ now < Run.duration
    /\ (now % Run.period = 0) => lastInvoke.at = now
    /\ now' = now + 1
    /\ UNCHANGED <<pageVars, obsVars, heroVars, ptrVars, perfVars, clickVars>>
    /\ UNCHANGED <<kind, wait, immediate, timeout, inThrottle, timers, nextId,
                   invocations, lastInvoke, burst, burstCalls, closed, calls,
                   lastCall, prevCallAt, lateFire, cancelledDue>>

NextRun ==
    \/ RunInvoke
    \/ RunFire
    \/ RunTick

SpecThrottleRun == InitRun /\ [][NextRun]_vars

RunDone == now = Run.duration

\* Every cooldown timer so far ran at its due instant, and none is overdue.
RunOnTime == ~lateFire /\ \A t \in timers : t.due >= now

----------------------------------------------------------------------------
(* SpecPage: init() and destroy() called on the one ReniLandingPage, by    *)
(* the script itself (line 412) and by the page's client afterwards. The   *)
(* continuation of an init() suspended at its await runs as a microtask of *)
(* the DOMContentLoaded dispatch: nothing else runs before it.             *)

MaxInitCalls == 2
MaxDestroys == 2
MaxAttach == 2

InitCalls == 1..MaxInitCalls

Resumable(c) == initPc[c] = "waiting" /\ readyState = "ready"

NoneResumable == \A c \in InitCalls : ~Resumable(c)

InitPage ==
    /\ readyState \in {"loading", "ready"}
    /\ hasMatchMedia \in BOOLEAN
    /\ modules = NoModules
    /\ isInitialized = FALSE
    /\ initPc = [c \in InitCalls |-> "notCalled"]
    /\ objects = 0
    /\ constructed = 0
    /\ listeners = 0
    /\ failures = 0
    /\ hookCalls = [n \in ModuleNames |-> 0]
    /\ destroys = 0
    /\ attaches = 0
    /\ lastOp = "none"
    /\ IdleRate
    /\ IdleObs
    /\ IdleHero
    /\ IdlePtr
    /\ IdlePerf
    /\ IdleClick

\* init() called with the document still loading: it adds its DOMContentLoaded
\* listener and is suspended at the await (lines 362-366).
InitSuspend(c) ==
    /\ NoneResumable
    /\ initPc[c] = "notCalled"
    /\ \A b \in InitCalls : b < c => initPc[b] # "notCalled"
    /\ readyState = "loading"
    /\ initPc' = [initPc EXCEPT ![c] = "waiting"]
    /\ listeners' = listeners + 1
    /\ lastOp' = "init"
    /\ UNCHANGED <<readyState, hasMatchMedia, modules, isInitialized, objects,
                   constructed, failures, hookCalls, destroys, attaches>>
    /\ UNCHANGED <<rateVars, obsVars, heroVars, ptrVars, perfVars, clickVars>>

\* init() called with the document ready: the whole body runs (lines 360-386).
InitImmediate(c) ==
    /\ NoneResumable
    /\ initPc[c] = "notCalled"
    /\ \A b \in InitCalls : b < c => initPc[b] # "notCalled"
    /\ readyState = "ready"
    /\ SetPage(InitBody(PageState))
    /\ initPc' = [initPc EXCEPT ![c] = "done"]
    /\ lastOp' = "init"
    /\ UNCHANGED <<readyState, hasMatchMedia, hookCalls, destroys, attaches>>
    /\ UNCHANGED <<rateVars, obsVars, heroVars, ptrVars, perfVars, clickVars>>

\* The document fires DOMContentLoaded.
DOMContentLoaded ==
    /\ readyState = "loading"
    /\ readyState' = "ready"
    /\ UNCHANGED <<hasMatchMedia, modules, isInitialized, initPc, objects,
                   constructed, listeners, failures, hookCalls, destroys, attaches,
              lastOp>>
    /\ UNCHANGED <<rateVars, obsVars, heroVars, ptrVars, perfVars, clickVars>>

\* A suspended init() resumes after its await, in the order of the listeners.
InitResume(c) ==
    /\ Resumable(c)
    /\ \A b \in InitCalls : b < c => ~Resumable(b)
    /\ SetPage(InitBody(PageState))
    /\ initPc' = [initPc EXCEPT ![c] = "done"]
    /\ lastOp' = "init"
    /\ UNCHANGED <<readyState, hasMatchMedia, hookCalls, destroys, attaches>>
    /\ UNCHANGED <<rateVars, obsVars, heroVars, ptrVars, perfVars, clickVars>>

\* destroy() called by the client.
Destroy ==
    /\ NoneResumable
    /\ destroys < MaxDestroys
    /\ DestroyBody
    /\ destroys' = destroys + 1
    /\ lastOp' = (IF lastOp \in {"destroy", "destroyAgain"} THEN "destroyAgain" ELSE "destroy")
    /\ UNCHANGED <<readyState, hasMatchMedia, initPc, objects, constructed,
                   listeners, failures, attaches>>
    /\ UNCHANGED <<rateVars, obsVars, heroVars, ptrVars, perfVars, clickVars>>

\* The client puts a module of its own into modules, with or without a
\* destroy hook: reniLandingPage.modules.plugin = {...}.
Attach(h) ==
    /\ NoneResumable
    /\ attaches < MaxAttach
    /\ modules' = [modules EXCEPT ![ClientModule] =
                       [present |-> TRUE, inst |-> objects + 1, hook |-> h]]
    /\ objects' = objects + 1
    /\ attaches' = attaches + 1
    /\ lastOp' = "attach"
    /\ UNCHANGED <<readyState, hasMatchMedia, isInitialized, initPc, constructed,
                   listeners, failures, hookCalls, destroys>>
    /\ UNCHANGED <<rateVars, obsVars, heroVars, ptrVars, perfVars, clickVars>>

NextPage ==
    \/ \E c \in InitCalls : InitSuspend(c)
    \/ \E c \in InitCalls : InitImmediate(c)
    \/ DOMContentLoaded
    \/ \E c \in InitCalls : InitResume(c)
    \/ Destroy
    \/ \E h \in BOOLEAN : Attach(h)

SpecPage == InitPage /\ [][NextPage]_vars

----------------------------------------------------------------------------
(* SpecObs: page setup, then the browser queues intersection entries for   *)
(* the observed targets and delivers them; stagger timers run when due or  *)
(* later. new AnimationManager() runs inside init() (l.372), which is      *)
(* called (l.412) or resumed (first DOMContentLoaded listener, l.364)      *)
(* before the services handler (l.601) runs.                               *)

MaxCrossings == 3
MaxObsTicks == 2

InitObs ==
    /\ reducedMotion \in BOOLEAN
    /\ hasIO \in BOOLEAN
    /\ animPc = "todo"
    /\ svcPc = "todo"
    /\ svcRest = FALSE
    /\ opacity = [e \in Elements |-> ""]
    /\ transform = [e \in Elements |-> ""]
    /\ classes = [e \in Elements |-> {}]
    /\ animatedElements = {}
    /\ observed = [o \in Observers |-> {}]
    /\ isect = [o \in Observers |-> [e \in Elements |-> "unknown"]]
    /\ queue = [o \in Observers |-> <<>>]
    /\ acts = [o \in Observers |-> [e \in Elements |-> 0]]
    /\ observeCalls = 0
    /\ crossings = 0
    /\ delivered = [o \in Observers |-> {}]
    /\ stagger = {}
    /\ IdleRate
    /\ IdlePage
    /\ IdleHero
    /\ IdlePtr
    /\ IdlePerf
    /\ IdleClick

UnchangedRateHistory ==
    UNCHANGED <<kind, wait, immediate, timeout, inThrottle, invocations,
                lastInvoke, burst, burstCalls, closed, calls, lastCall,
                prevCallAt, lateFire, cancelledDue>>

\* new AnimationManager(), l.118-122
AnimSetup ==
    /\ animPc = "todo"
    /\ animPc' = "done"
    /\ SetObs(AnimationManagerInit(ObsState))
    /\ UNCHANGED <<reducedMotion, hasIO, svcPc, svcRest, isect, queue, crossings,
                   delivered, stagger, now>>
    /\ UnchangedRateHistory
    /\ UNCHANGED <<pageVars, heroVars, ptrVars, perfVars, clickVars>>

\* The services DOMContentLoaded handler, l.601-1003. Without
\* IntersectionObserver, new IntersectionObserver (l.615) throws a
\* ReferenceError and the handler ends there.
ServicesSetup ==
    /\ animPc = "done"
    /\ svcPc = "todo"
    /\ IF hasIO
       THEN /\ svcPc' = "done"
            /\ svcRest' = TRUE
            /\ SetObs(ServicesObservers(ObsState))
       ELSE /\ svcPc' = "raised"
            /\ svcRest' = FALSE
            /\ SetObs(ObsState)
    /\ UNCHANGED <<reducedMotion, hasIO, animPc, isect, queue, crossings, delivered,
                   stagger, now>>
    /\ UnchangedRateHistory
    /\ UNCHANGED <<pageVars, heroVars, ptrVars, perfVars, clickVars>>

\* The browser finds that target e of observer o is now (not) intersecting and
\* queues an entry; the first entry of a target says either.
Cross(o, e, b) ==
    /\ e \in observed[o]
    /\ crossings < MaxCrossings
    /\ isect[o][e] # (IF b THEN "in" ELSE "out")
    /\ isect' = [isect EXCEPT ![o][e] = IF b THEN "in" ELSE "out"]
    /\ queue' = [queue EXCEPT ![o] = Append(@, [target |-> e, isIntersecting |-> b])]
    /\ crossings' = crossings + 1
    /\ UNCHANGED <<reducedMotion, hasIO, animPc, svcPc, svcRest, opacity, transform,
                   classes, animatedElements, observed, acts, observeCalls,
                   delivered, stagger>>
    /\ UNCHANGED <<rateVars, pageVars, heroVars, ptrVars, perfVars, clickVars>>

\* A stagger timer that has not run yet.
NotFired == -1

\* History of a callback of serviceObserver: the timers it sets, one per
\* intersecting entry in the order of the batch, the first with id firstId.
StaggerOf(entries, firstId, at) ==
    LET hits == {i \in 1..Len(entries) : entries[i].isIntersecting}
    IN  {[id |-> firstId + Cardinality({j \in hits : j < i}), batch |-> firstId,
          index |-> i - 1, at |-> at, firedAt |-> NotFired] : i \in hits}

\* The targets a batch of entries reports as intersecting.
IntersectingTargets(entries) ==
    {entries[i].target : i \in {j \in 1..Len(entries) : entries[j].isIntersecting}}

\* The browser calls AnimationManager's observer with its queued entries.
DeliverAnim ==
    /\ queue["anim"] # <<>>
    /\ SetObs(AnimCallback(ObsState, queue["anim"], 1))
    /\ queue' = [queue EXCEPT !["anim"] = <<>>]
    /\ delivered' = [delivered EXCEPT !["anim"] = @ \cup IntersectingTargets(queue["anim"])]
    /\ UNCHANGED stagger
    /\ UNCHANGED <<reducedMotion, hasIO, animPc, svcPc, svcRest, isect, crossings, now>>
    /\ UnchangedRateHistory
    /\ UNCHANGED <<pageVars, heroVars, ptrVars, perfVars, clickVars>>

\* The browser calls serviceObserver with its queued entries.
DeliverService ==
    /\ queue["service"] # <<>>
    /\ SetObs(ServiceCallback(ObsState, queue["service"], 1))
    /\ queue' = [queue EXCEPT !["service"] = <<>>]
    /\ delivered' = [delivered EXCEPT !["service"] = @ \cup IntersectingTargets(queue["service"])]
    /\ stagger' = stagger \cup StaggerOf(queue["service"], nextId, now)
    /\ UNCHANGED <<reducedMotion, hasIO, animPc, svcPc, svcRest, isect, crossings, now>>
    /\ UnchangedRateHistory
    /\ UNCHANGED <<pageVars, heroVars, ptrVars, perfVars, clickVars>>

\* The browser calls titleObserver with its queued entries.
DeliverTitle ==
    /\ queue["title"] # <<>>
    /\ SetObs(TitleCallback(ObsState, queue["title"], 1))
    /\ queue' = [queue EXCEPT !["title"] = <<>>]
    /\ delivered' = [delivered EXCEPT !["title"] = @ \cup IntersectingTargets(queue["title"])]
    /\ UNCHANGED stagger
    /\ UNCHANGED <<reducedMotion, hasIO, animPc, svcPc, svcRest, isect, crossings, now>>
    /\ UnchangedRateHistory
    /\ UNCHANGED <<pageVars, heroVars, ptrVars, perfVars, clickVars>>

\* A stagger timer runs.
StaggerFire ==
    /\ \E t \in timers :
          /\ Runnable(t)
          /\ SetObs(ServiceActivate([ObsState EXCEPT !.timers = @ \ {t}], t.args))
          /\ stagger' = {IF s.id = t.id THEN [s EXCEPT !.firedAt = now] ELSE s :
                          s \in stagger}
    /\ UNCHANGED <<reducedMotion, hasIO, animPc, svcPc, svcRest, isect, queue,
                   crossings, delivered, now>>
    /\ UnchangedRateHistory
    /\ UNCHANGED <<pageVars, heroVars, ptrVars, perfVars, clickVars>>

\* Time passes: up to the bound, and for as long as a timer is waiting for
\* its time.
ObsTick ==
    /\ \/ now < MaxObsTicks * StaggerStep
       \/ \E t \in timers : t.due > now
    /\ now' = now + StaggerStep
    /\ UNCHANGED <<kind, wait, immediate, timeout, inThrottle, timers, nextId,
                   invocations, lastInvoke, burst, burstCalls, closed, calls,
                   lastCall, prevCallAt, lateFire, cancelledDue>>
    /\ UNCHANGED <<pageVars, obsVars, heroVars, ptrVars, perfVars, clickVars>>

NextObs ==
    \/ AnimSetup
    \/ ServicesSetup
    \/ \E o \in Observers : \E e \in TargetsOf(o) : \E b \in BOOLEAN : Cross(o, e, b)
    \/ DeliverAnim
    \/ DeliverService
    \/ DeliverTitle
    \/ StaggerFire
    \/ ObsTick

SpecObs == InitObs /\ [][NextObs]_vars

\* SpecObs with the timers and the clock running: a due stagger timer
\* eventually runs.
SpecObsFair == SpecObs /\ WF_vars(StaggerFire) /\ WF_vars(ObsTick)

----------------------------------------------------------------------------
(* SpecType: the hero DOMContentLoaded handler (l.485-595) starts the       *)
(* typewriter on a page whose init() has completed; the .subtitle element   *)
(* may leave and re-enter the document, and the client may call destroy().  *)

\* The fields of the page before init().
StartPage == [modules |-> NoModules, isInitialized |-> FALSE, objects |-> 0,
              constructed |-> 0, listeners |-> 0, failures |-> 0]

InitType ==
    /\ subtitles \in SubtitleLists
    /\ subtitlePresent \in BOOLEAN
    /\ hasHero \in BOOLEAN
    /\ heroPc = "todo"
    /\ subtitleIndex = 0
    /\ charIndex = 0
    /\ isDeleting = FALSE
    /\ innerHTML = Markup
    /\ twTimers = <<>>
    /\ renders = <<>>
    /\ typed = 0
    /\ deleted = 0
    /\ rounds = 0
    /\ lastRound = NoRound
    /\ aborted = FALSE
    /\ stepParity = 0
    /\ readyState = "ready"
    /\ hasMatchMedia = TRUE
    /\ modules = InitBody(StartPage).modules
    /\ isInitialized = InitBody(StartPage).isInitialized
    /\ objects = InitBody(StartPage).objects
    /\ constructed = InitBody(StartPage).constructed
    /\ listeners = InitBody(StartPage).listeners
    /\ failures = InitBody(StartPage).failures
    /\ initPc = [c \in InitCalls |-> "done"]
    /\ hookCalls = [n \in ModuleNames |-> 0]
    /\ destroys = 0
    /\ attaches = 0
    /\ lastOp = "init"
    /\ IdleRate
    /\ IdleObs
    /\ IdlePtr
    /\ IdlePerf
    /\ IdleClick

\* The hero handler, l.485-595: createParticles (l.584) throws a TypeError at
\* l.491 when the page has no .hero, and setTimeout(typeWriter, 1000) (l.585)
\* is then not reached.
HeroSetup ==
    /\ heroPc = "todo"
    /\ IF hasHero
       THEN /\ heroPc' = "done"
            /\ twTimers' = Append(twTimers, TypeDelays.start)
       ELSE /\ heroPc' = "raised"
            /\ twTimers' = twTimers
    /\ UNCHANGED <<subtitles, subtitlePresent, hasHero, subtitleIndex, charIndex,
                   isDeleting, innerHTML, renders, typed, deleted, rounds,
                   lastRound, aborted, stepParity>>
    /\ UNCHANGED <<rateVars, pageVars, obsVars, ptrVars, perfVars, clickVars>>

\* The typewriter's timer runs typeWriter. History: the texts rendered so
\* far, the typing and deleting steps of the current round (a round ends with
\* the step that brings charIndex back to 0), the rounds completed modulo
\* the number of subtitles, and whether some step found no .subtitle.
TypeWriterStep ==
    /\ twTimers # <<>>
    /\ LET st == TypeWriter([TypeState EXCEPT !.twTimers = Tail(@)])
           endsRound == subtitlePresent /\ isDeleting /\ st.charIndex = 0
       IN  /\ SetType(st)
           /\ renders' = IF subtitlePresent /\ Len(renders) < MaxRenders
                         THEN Append(renders, st.innerHTML.text)
                         ELSE renders
           /\ typed' = IF endsRound THEN 0
                       ELSE IF subtitlePresent /\ ~isDeleting THEN typed + 1
                       ELSE typed
           /\ deleted' = IF endsRound THEN 0
                         ELSE IF subtitlePresent /\ isDeleting THEN deleted + 1
                         ELSE deleted
           /\ rounds' = IF endsRound THEN (rounds + 1) % Len(subtitles) ELSE rounds
           /\ lastRound' = IF endsRound
                           THEN [index |-> subtitleIndex, typed |-> typed,
                                 deleted |-> deleted + 1]
                           ELSE lastRound
    /\ aborted' = (aborted \/ ~subtitlePresent)
    /\ stepParity' = 1 - stepParity
    /\ UNCHANGED <<subtitles, subtitlePresent, hasHero, heroPc>>
    /\ UNCHANGED <<rateVars, pageVars, obsVars, ptrVars, perfVars, clickVars>>

\* Another script removes the .subtitle element from the document or puts it
\* back.
SubtitleToggle ==
    /\ subtitlePresent' = ~subtitlePresent
    /\ UNCHANGED <<subtitles, hasHero, heroPc, subtitleIndex, charIndex, isDeleting,
                   innerHTML, twTimers, renders, typed, deleted, rounds, lastRound,
                   aborted, stepParity>>
    /\ UNCHANGED <<rateVars, pageVars, obsVars, ptrVars, perfVars, clickVars>>

NextType ==
    \/ HeroSetup
    \/ TypeWriterStep
    \/ SubtitleToggle
    \/ Destroy

SpecType == InitType /\ [][NextType]_vars

\* SpecType with the event loop running: the handler and every pending timer
\* eventually run.
SpecTypeFair == SpecType /\ WF_vars(HeroSetup) /\ WF_vars(TypeWriterStep)

----------------------------------------------------------------------------
(* SpecPointer: the page after setup (IntersectionObserver present, a       *)
(* .hero-button, .hero-content, a .service-item, a .btn and .services in    *)
(* the document); the user moves the pointer and scrolls, the browser runs  *)
(* timers and animation frames. frameWrites counts the writes of each       *)
(* style property since the last animation frame. A mousemove on an element *)
(* bubbles to the document's listener (l.561); mouseenter and mouseleave do *)
(* not bubble.                                                              *)

InitPointer ==
    /\ reducedMotion \in BOOLEAN
    /\ hasIO = TRUE
    /\ animPc = "todo"
    /\ svcPc = "todo"
    /\ svcRest = FALSE
    /\ opacity = [e \in Elements |-> ""]
    /\ transform = [e \in Elements |-> ""]
    /\ classes = [e \in Elements |-> {}]
    /\ animatedElements = {}
    /\ observed = [o \in Observers |-> {}]
    /\ isect = [o \in Observers |-> [e \in Elements |-> "unknown"]]
    /\ queue = [o \in Observers |-> <<>>]
    /\ acts = [o \in Observers |-> [e \in Elements |-> 0]]
    /\ delivered = [o \in Observers |-> {}]
    /\ stagger = {}
    /\ observeCalls = 0
    /\ crossings = 0
    /\ IdlePtr
    /\ IdlePerf
    /\ IdleClick
    /\ IdleRate
    /\ IdlePage
    /\ IdleHero

CanWrite(props) == \A q \in props : frameWrites[q] < MaxFrameWrites

UnchangedByPointer == UNCHANGED <<rateVars, pageVars, obsVars, heroVars, perfVars, clickVars>>

\* mousemove over the .hero-button.
ButtonMove(p) ==
    /\ CanWrite({"heroButton.transform", "heroContent.transform"})
    /\ SetPtr(HeroParallax(MagneticMove(PtrState, p), p))
    /\ lastMove' = p
    /\ UNCHANGED <<owed, scrollSeq, runsSinceFire>>
    /\ UnchangedByPointer

\* mouseleave of the .hero-button.
ButtonLeave ==
    /\ CanWrite({"heroButton.transform"})
    /\ SetPtr(MagneticLeave(PtrState))
    /\ UNCHANGED <<lastMove, owed, scrollSeq, runsSinceFire>>
    /\ UnchangedByPointer

\* mousemove over a .service-item.
ItemMove(p) ==
    /\ CanWrite({"item.transform", "heroContent.transform"})
    /\ SetPtr(HeroParallax(TiltMove(PtrState, p), p))
    /\ lastMove' = p
    /\ UNCHANGED <<owed, scrollSeq, runsSinceFire>>
    /\ UnchangedByPointer

\* mouseleave of a .service-item.
ItemLeave ==
    /\ CanWrite({"item.transform"})
    /\ SetPtr(TiltLeave(PtrState))
    /\ UNCHANGED <<lastMove, owed, scrollSeq, runsSinceFire>>
    /\ UnchangedByPointer

\* mousemove elsewhere in the document.
DocMove(p) ==
    /\ CanWrite({"heroContent.transform"})
    /\ SetPtr(HeroParallax(PtrState, p))
    /\ lastMove' = p
    /\ UNCHANGED <<owed, scrollSeq, runsSinceFire>>
    /\ UnchangedByPointer

\* mouseenter of a .btn.
BtnEnter ==
    /\ CanWrite({"btn.transform"})
    /\ SetPtr(HoverEnter(PtrState))
    /\ UNCHANGED <<lastMove, owed, scrollSeq, runsSinceFire>>
    /\ UnchangedByPointer

\* mouseleave of a .btn.
BtnLeave ==
    /\ CanWrite({"btn.transform"})
    /\ SetPtr(HoverLeave(PtrState))
    /\ UNCHANGED <<lastMove, owed, scrollSeq, runsSinceFire>>
    /\ UnchangedByPointer

\* A scroll event with the page scrolled to y: the hero's listener (l.588),
\* then optimizedScroll (l.1003).
Scroll(y) ==
    /\ CanWrite({"heroContent.boxShadow"})
    /\ SetPtr(DispatchScroll([PtrState EXCEPT !.scrollY = y], ScrollListeners, 1))
    /\ owed' = TRUE
    /\ scrollSeq' = 1 - scrollSeq
    /\ UNCHANGED <<lastMove, runsSinceFire>>
    /\ UnchangedByPointer

\* The timer of optimizedScroll runs requestTick.
ScrollTimerFire ==
    /\ scrollTimer
    /\ SetPtr(RequestTick([PtrState EXCEPT !.scrollTimer = FALSE]))
    /\ runsSinceFire' = 0
    /\ UNCHANGED <<lastMove, owed, scrollSeq>>
    /\ UnchangedByPointer

\* An animation frame: the pending requestAnimationFrame callbacks run, and a
\* new frame window begins.
Frame(inView) ==
    /\ SetPtr(RunFrameCallbacks([PtrState EXCEPT !.frameWrites = [q \in Props |-> 0]],
                                inView))
    /\ owed' = (owed /\ rafPending = 0)
    /\ runsSinceFire' = runsSinceFire + rafPending
    /\ UNCHANGED <<lastMove, scrollSeq>>
    /\ UnchangedByPointer

NextPointer ==
    \/ \E p \in Positions : ButtonMove(p)
    \/ ButtonLeave
    \/ \E p \in Positions : ItemMove(p)
    \/ ItemLeave
    \/ \E p \in Positions : DocMove(p)
    \/ BtnEnter
    \/ BtnLeave
    \/ \E y \in Positions : Scroll(y)
    \/ ScrollTimerFire
    \/ \E inView \in BOOLEAN : Frame(inView)

SpecPointer == InitPointer /\ [][NextPointer]_vars

----------------------------------------------------------------------------
(* SpecScroll: the document-level handlers of SpecPointer alone: mousemove  *)
(* on the document, scroll, the timer of optimizedScroll and the animation  *)
(* frames. SpecScrollFair: the timer and the frames eventually run.         *)

NextScroll ==
    \/ \E p \in Positions : DocMove(p)
    \/ \E y \in Positions : Scroll(y)
    \/ ScrollTimerFire
    \/ \E inView \in BOOLEAN : Frame(inView)

SpecScroll == InitPointer /\ [][NextScroll]_vars

SpecScrollFair ==
    SpecScroll /\ WF_vars(ScrollTimerFire) /\ WF_vars(\E inView \in BOOLEAN : Frame(inView))

----------------------------------------------------------------------------
(* SpecModules: the callbacks of PerformanceMonitor's observers and the     *)
(* click handlers of ContactManager, on a page whose init() has completed.  *)

InitModules ==
    /\ metrics = [k \in MetricKeys |-> NoMetric]
    /\ clsValue = 0
    /\ perfCalls = 0
    /\ hasGtag \in BOOLEAN
    /\ gtagCalls = 0
    /\ logLines = [k \in LinkKinds |-> 0]
    /\ raised = 0
    /\ clicks = 0
    /\ IdleRate
    /\ IdlePage
    /\ IdleObs
    /\ IdleHero
    /\ IdlePtr

UnchangedByModules == UNCHANGED <<rateVars, pageVars, obsVars, heroVars, ptrVars>>

\* The browser calls lcpObserver.
LcpReport(v) ==
    /\ perfCalls < MaxPerfCalls
    /\ metrics' = LcpCallback(metrics, v)
    /\ perfCalls' = perfCalls + 1
    /\ UNCHANGED <<clsValue, clickVars>>
    /\ UnchangedByModules

\* The browser calls fidObserver; a page has one first-input entry.
FidReport(v) ==
    /\ perfCalls < MaxPerfCalls
    /\ metrics["FID"] = NoMetric
    /\ metrics' = FidCallback(metrics, v)
    /\ perfCalls' = perfCalls + 1
    /\ UNCHANGED <<clsValue, clickVars>>
    /\ UnchangedByModules

\* The browser calls clsObserver.
ClsReport(shift) ==
    /\ perfCalls < MaxPerfCalls
    /\ clsValue + shift <= MaxCls
    /\ metrics' = ClsCallback(metrics, clsValue, shift).metrics
    /\ clsValue' = ClsCallback(metrics, clsValue, shift).clsValue
    /\ perfCalls' = perfCalls + 1
    /\ UNCHANGED clickVars
    /\ UnchangedByModules

\* A click on a mailto: or tel: link.
LinkClick(k, throws) ==
    /\ clicks < MaxClicks
    /\ throws => hasGtag
    /\ SetClick(TrackClick(ClickState, k, throws))
    /\ clicks' = clicks + 1
    /\ UNCHANGED <<hasGtag, perfVars>>
    /\ UnchangedByModules

NextModules ==
    \/ \E v \in MetricValues : LcpReport(v)
    \/ \E v \in MetricValues : FidReport(v)
    \/ \E shift \in 0..MaxMetric : ClsReport(shift)
    \/ \E k \in LinkKinds : \E throws \in BOOLEAN : LinkClick(k, throws)

SpecModules == InitModules /\ [][NextModules]_vars

----------------------------------------------------------------------------
(* The claims about viewport activation.                                   *)

\* Element e is in its activated presentation.
Activated(e) ==
    IF e \in TitleTargets
    THEN "animate-title" \in classes[e]
    ELSE opacity[e] = "1" /\ transform[e] = "translateY(0)"

\* Element e is in the hidden presentation set before activation.
Hidden(e) == opacity[e] = "0"

\* Page setup is over: the AnimationManager is constructed and the services
\* handler has run.
SetupOver == animPc = "done" /\ svcPc # "todo"

\* C1 as stated: for every observer and every target, whatever the entries
\* delivered, the observer's activation is performed at most once.
C1_ActivatedAtMostOnce ==
    \A o \in Observers : \A e \in Elements : acts[o][e] <= 1

\* Element e shows as activated: the script has not left it in the hidden
\* presentation (an element the script never touched keeps the presentation
\* of the stylesheet, which counts as shown).
Shown(e) == opacity[e] \in {"", "1"} /\ transform[e] \in {"", "translateY(0)"}

\* C2 as stated: with reduced motion set, observe() is never called on any
\* observer, no element is left in the hidden presentation, and once setup is
\* over every registered element shows as activated.
C2_ReducedMotionActivatesAll ==
    reducedMotion =>
        /\ observeCalls = 0
        /\ \A e \in Elements : ~Hidden(e)
        /\ SetupOver => \A e \in Elements : Shown(e)

\* C3 as stated: without IntersectionObserver setup never raises, each setup
\* path that has run has activated all its targets, and the services handler
\* has run its remaining steps.
C3_NoObserverFallback ==
    ~hasIO =>
        /\ svcPc # "raised"
        /\ (animPc = "done" /\ ~reducedMotion) => \A e \in AnimTargets : Activated(e)
        /\ svcPc # "todo" =>
              /\ svcRest
              /\ \A e \in ServiceItems \cup TitleTargets : Activated(e)

----------------------------------------------------------------------------
(* The claims about ReniLandingPage.                                       *)

\* The step completes an init() call.
CompletesInit == \E c \in InitCalls : initPc[c] # "done" /\ initPc'[c] = "done"

\* C4 as stated: once isInitialized is true, a further init() constructs no
\* module, replaces no entry of modules and registers no listener.
C4_SecondInitIsNoOp ==
    [][(isInitialized /\ CompletesInit) =>
          /\ constructed' = constructed
          /\ modules' = modules
          /\ listeners' = listeners]_vars

\* C5 as stated: when an init() call completes, every module whose constructor
\* does not throw has been constructed by it and is registered in modules.
C5_SiblingsConstructed ==
    [][CompletesInit =>
          \A n \in OwnModules :
              ~Throws(n) => (modules'[n].present /\ modules'[n].inst > objects)]_vars

\* One step of destroy().
C6_DestroyStep ==
    destroys' = destroys + 1 =>
        \* each module that exposes a hook has it called once, the others never
        /\ \A n \in ModuleNames :
              hookCalls'[n] = hookCalls[n]
                              + (IF modules[n].present /\ modules[n].hook THEN 1 ELSE 0)
        \* then modules is empty and isInitialized false
        /\ \A n \in ModuleNames : ~modules'[n].present
        /\ ~isInitialized'
        \* a destroy() right after a destroy() calls no hook and changes nothing
        /\ lastOp \in {"destroy", "destroyAgain"} =>
              /\ hookCalls' = hookCalls
              /\ modules' = modules
              /\ isInitialized' = isInitialized

\* C6: destroy() calls the destroy hook of each owned module that exposes one
\* exactly once, then leaves modules empty and isInitialized false; a second
\* destroy() in succession calls no hook again and changes no state.
C6_Destroy == [][C6_DestroyStep]_vars

\* Two destroy() calls in succession on an initialized page that owned a module
\* with a destroy hook: the hook was called once.
C6_Witness ==
    /\ lastOp = "destroyAgain"
    /\ constructed >= Len(ModuleOrder)
    /\ hookCalls[ClientModule] = 1
    /\ attaches = 1

----------------------------------------------------------------------------
(* The claims about the rate limiters.                                     *)

TrailingDebounce == kind \in {"debounce", "debounceSvc"} /\ ~immediate /\ wait > 0

\* The call of func made in the current burst is the timer's: it carries the
\* arguments of the burst's last invocation, no earlier than wait after it.
BurstCallIsTrailing ==
    burstCalls = 1 =>
        /\ ~lastCall.sync
        /\ lastCall.args = lastInvoke.args
        /\ lastCall.at >= lastInvoke.at + wait

\* The current burst has made no call yet exactly while its one timer, armed by
\* its last invocation, is pending.
BurstCallIsPending ==
    /\ Cardinality(timers) <= 1
    /\ burst > 0 =>
         (burstCalls = 0 <=>
            \E t \in timers : /\ t.id = timeout
                              /\ t.args = lastInvoke.args
                              /\ t.due = lastInvoke.at + wait)

\* C7 as stated: for a trailing debounce with wait > 0, every burst of
\* invocations less than wait apart produces exactly one call of func, with the
\* arguments of the last invocation of the burst, no earlier than wait after it.
C7_ExactlyOneCallPerBurst ==
    TrailingDebounce =>
        /\ closed.zero = 0
        /\ closed.many = 0
        /\ burstCalls <= 1
        /\ BurstCallIsTrailing
        /\ BurstCallIsPending

\* C7 as amended: every burst produces at most one call of func, made by the
\* timer with the arguments of the burst's last invocation, no earlier than
\* wait after it; the call is still pending exactly while the burst has made
\* none; and a finished burst made no call only when a later invocation
\* cancelled its timer after the timer's time had come (a late timer).
C7_AtMostOneCallPerBurst ==
    TrailingDebounce =>
        /\ closed.many = 0
        /\ closed.zero = cancelledDue
        /\ burstCalls <= 1
        /\ BurstCallIsTrailing
        /\ BurstCallIsPending

\* A burst of two invocations has produced its single call, with the arguments
\* of the second invocation.
C7_Witness ==
    /\ TrailingDebounce
    /\ burst = 1
    /\ invocations >= 2
    /\ burstCalls = 1
    /\ lastCall.args = lastInvoke.args
    /\ lastCall.at >= lastInvoke.at + wait

\* One step of a throttled wrapper.
C8_ThrottleStep ==
    kind = "throttle" =>
        \* an invocation outside the cooldown calls func synchronously with its
        \* own arguments and starts a cooldown of wait
        /\ (invocations' = invocations + 1 /\ ~inThrottle) =>
              /\ calls' = calls + 1
              /\ lastCall' = [args |-> lastInvoke'.args, at |-> now, sync |-> TRUE]
              /\ inThrottle'
              /\ \E t \in timers' : t \notin timers /\ t.due = now + wait
        \* an invocation during the cooldown is dropped
        /\ (invocations' = invocations + 1 /\ inThrottle) =>
              /\ calls' = calls
              /\ timers' = timers
              /\ inThrottle'
        \* nothing but an invocation calls func: no dropped invocation is replayed
        /\ (invocations' = invocations) => (calls' = calls /\ lastCall' = lastCall)
        \* the cooldown ends only when its timer runs
        /\ (inThrottle /\ ~inThrottle') =>
              /\ invocations' = invocations
              /\ \E t \in timers : t.due <= now /\ timers' = timers \ {t}

\* C8: the first invocation of a throttled wrapper calls func synchronously and
\* starts a cooldown; invocations during the cooldown are dropped and never
\* replayed; the first invocation after the timer has run calls func
\* synchronously and starts a new cooldown.
C8_Throttle == [][C8_ThrottleStep]_vars

\* Two cooldowns were started and at least one invocation was dropped, and the
\* second cooldown has ended.
C8_Witness ==
    /\ kind = "throttle"
    /\ wait > 0
    /\ calls = 2
    /\ invocations >= 3
    /\ ~inThrottle

\* Successive calls of func are at least wait apart.
CallsSpaced == calls >= 2 => lastCall.at - prevCallAt >= wait

\* C9 as stated: successive calls of func are at least the window apart, and
\* invoking every 10 ms for 1000 ms with a window of 100 ms yields between 9
\* and 11 calls, also when the cooldown timer runs late.
C9_SpacedAndNineToEleven ==
    /\ CallsSpaced
    /\ RunDone => (9 <= calls /\ calls <= 11)

\* C9 as amended: successive calls of func are at least the window apart also
\* when the timer runs late; the run yields at least 1 and at most 11 calls,
\* and exactly 10 when every cooldown timer runs at its due time.
C9_SpacedAndAtMostEleven ==
    /\ CallsSpaced
    /\ RunDone => (1 <= calls /\ calls <= 11)
    /\ (RunDone /\ RunOnTime) => calls = 10

\* The run is over, every timer ran on time, and func was called 10 times.
C9_Witness ==
    /\ RunDone
    /\ RunOnTime
    /\ calls = 10
    /\ lastCall.at - prevCallAt >= wait

\* C10 as stated: with wait = 0 every invocation of a debounced or throttled
\* wrapper calls func once, synchronously inside the invocation.
C10_PassThroughAtZero ==
    wait = 0 =>
        /\ calls = invocations
        /\ calls > 0 => lastCall.sync

----------------------------------------------------------------------------
(* The claims about the typewriter.                                        *)

\* C11: in every reachable state of the typewriter, subtitleIndex is an index
\* of the subtitles (0 <= subtitleIndex < N) and charIndex is between 0 and
\* the length of the current subtitle, for any list of non-empty subtitles.
C11_IndicesInRange ==
    /\ subtitleIndex \in 0..(Len(subtitles) - 1)
    /\ charIndex \in 0..Len(subtitles[subtitleIndex + 1])

\* The last subtitle of a longest list is typed in full.
C11_Witness ==
    /\ Len(subtitles) = MaxSubtitles
    /\ subtitleIndex = Len(subtitles) - 1
    /\ charIndex = MaxLen
    /\ isDeleting

\* The typewriter is between two rounds: at (i, 0, typing) with no step of
\* the next round taken.
BetweenRounds == charIndex = 0 /\ ~isDeleting /\ typed = 0 /\ deleted = 0

\* A completed round of subtitle i took length(subtitles[i]) typing steps and
\* as many deleting steps; between rounds the index is one past the last
\* round's, modulo N, and equals the number of completed rounds modulo N (so
\* it is 0 again after N rounds).
RoundTrip ==
    /\ lastRound.index >= 0 =>
          /\ lastRound.typed = Len(subtitles[lastRound.index + 1])
          /\ lastRound.deleted = Len(subtitles[lastRound.index + 1])
    /\ BetweenRounds =>
          /\ subtitleIndex = rounds
          /\ lastRound.index >= 0 =>
                subtitleIndex = (lastRound.index + 1) % Len(subtitles)

\* isDeleting changes only on a step that brings charIndex to 0 or to the
\* full length of the subtitle being shown.
FlipsAtEnds ==
    isDeleting' # isDeleting =>
        \/ charIndex' = 0
        \/ charIndex' = Len(subtitles[subtitleIndex + 1])

\* C12: from (i, 0, typing), length typing steps and length deleting steps
\* lead to ((i + 1) mod N, 0, typing); isDeleting changes only when charIndex
\* reaches 0 or the full length; after N rounds the state is (0, 0, typing).
C12_RoundTrip == []RoundTrip /\ [][FlipsAtEnds]_vars

\* N = MaxSubtitles rounds are completed and the typewriter is at (0, 0, typing).
C12_Witness ==
    /\ Len(subtitles) = MaxSubtitles
    /\ lastRound.index = Len(subtitles) - 1
    /\ BetweenRounds
    /\ subtitleIndex = 0

AbCd == <<Word("a", "b", 2), Word("c", "d", 2)>>

\* "a", "ab", "a", "", "c", "cd"
AbCdRenders == <<Word("a", "b", 1), Word("a", "b", 2), Word("a", "b", 1), <<>>,
                 Word("c", "d", 1), Word("c", "d", 2)>>

\* A typeWriter step that finds the subtitle writes a prefix of the current
\* subtitle followed by the cursor span: k + 1 characters when typing at
\* cursor k, k - 1 characters when deleting at cursor k.
RendersPrefix ==
    (stepParity' # stepParity /\ subtitlePresent) =>
        LET currentText == subtitles[subtitleIndex + 1]
            n == IF isDeleting THEN charIndex - 1 ELSE charIndex + 1
        IN  /\ n \in 0..Len(currentText)
            /\ innerHTML' = [text |-> SubSeq(currentText, 1, n), span |-> TRUE]

\* With subtitles ["ab", "cd"] the renders are "a", "ab", "a", "", "c", "cd".
RendersOfAbCd ==
    subtitles = AbCd =>
        \A k \in 1..Len(renders) : k <= Len(AbCdRenders) => renders[k] = AbCdRenders[k]

\* C13: each step renders a prefix of the current subtitle, of k + 1
\* characters when typing at cursor k and k - 1 when deleting at cursor k;
\* for ["ab", "cd"] the successive renders are "a", "ab", "a", "", "c", "cd".
C13_RendersPrefixes == []RendersOfAbCd /\ [][RendersPrefix]_vars

\* ["ab", "cd"] has been rendered up to "cd".
C13_Witness ==
    /\ subtitles = AbCd
    /\ Len(renders) >= Len(AbCdRenders)
    /\ innerHTML = Html(Word("c", "d", 2))

\* Once started, and until a step finds no subtitle, exactly one typewriter
\* timer is pending.
OneTimerPending == (heroPc = "done" /\ ~aborted) => Len(twTimers) = 1

\* Every subtitle of the list is rendered in full again and again, and so is
\* the empty string.
AllRenderedForever ==
    /\ \A i \in 1..MaxSubtitles :
          []<>(i > Len(subtitles)
               \/ (subtitleIndex = i - 1 /\ innerHTML = Html(subtitles[i])))
    /\ []<>(innerHTML = Html(<<>>))

AbortStep ==
    (stepParity' # stepParity /\ ~subtitlePresent) =>
        /\ UNCHANGED <<subtitleIndex, charIndex, isDeleting, innerHTML>>
        /\ twTimers' = <<>>

\* After such a step typeWriter never runs again.
NoResume == aborted => stepParity' = stepParity

\* C15: a typeWriter step that runs with .subtitle absent leaves
\* subtitleIndex, charIndex and isDeleting unchanged and schedules nothing;
\* from then on no timer is pending and typeWriter never runs again, even
\* with the element back.
C15_SilentAbort == [](aborted => twTimers = <<>>) /\ [][AbortStep /\ NoResume]_vars

\* The cycle was aborted in the middle of a subtitle and the element is back.
C15_Witness == aborted /\ subtitlePresent /\ charIndex > 0

----------------------------------------------------------------------------
(* The claims about the pointer and scroll handlers.                       *)

\* C16 as stated: with reduced motion set, whatever the mousemove, mouseenter
\* and scroll events, every surface keeps its resting presentation: no handler
\* writes a computed transform or the hover lift.
C16_ReducedMotionKeepsRest ==
    reducedMotion =>
        \A q \in TransformProps \cup {"services.backgroundPositionY"} :
            style[q].kind \in {"rest", "neutral"}

\* The style properties of the continuous effects: mouse parallax, magnetic
\* button, 3D tilt, scroll parallax.
ContinuousProps == {"heroContent.transform", "heroButton.transform", "item.transform",
                    "services.backgroundPositionY"}

\* C17 as stated: within one frame window a continuous effect writes its
\* surface at most once, however many events arrive (the resets of mouseleave
\* are not counted).
C17_OneWritePerFrame == \A q \in ContinuousProps : frameWrites[q] <= 1

----------------------------------------------------------------------------
(* The claims about the coordination of observers, timers and destroy().   *)

\* Observer o was called with an intersecting entry of target e and has not
\* yet activated and unobserved it.
Pending(o, e) == e \in delivered[o] /\ ~(acts[o][e] > 0 /\ e \notin observed[o])

SomePending == \E o \in Observers : \E e \in TargetsOf(o) : Pending(o, e)

\* C18: every target of an observer for which an intersecting entry was
\* delivered is eventually activated by that observer, service items through
\* their stagger timer, and once activated is not observed by it any more.
C18_EventuallyActivated ==
    /\ SomePending ~> ~SomePending
    /\ [](\A o \in Observers : \A e \in TargetsOf(o) :
             acts[o][e] > 0 => e \notin observed[o])

\* A service item was activated by a stagger timer with a delay.
C18_Witness ==
    \E e \in ServiceItems :
        /\ e \in delivered["service"]
        /\ acts["service"][e] > 0
        /\ e \notin observed["service"]
        /\ now > 0

\* C19 as stated: a .service-item, observed by AnimationManager's observer and
\* by serviceObserver, has its visible presentation applied at most once in
\* total, in every interleaving of the two callbacks and the stagger timer.
C19_AppliedOnceInTotal ==
    \A e \in ServiceItems : acts["anim"][e] + acts["service"][e] <= 1

\* C20 as stated: after destroy() has returned, no callback set up by the
\* page's script runs: the typewriter's timer chain is stopped.
C20_DestroyStopsCallbacks == [][destroys > 0 => stepParity' = stepParity]_vars

----------------------------------------------------------------------------
(* Claims on SpecModules.                                                  *)

\* C21: each key of PerformanceMonitor.metrics is write-once: once a key has
\* a value, no later performance-observer callback changes it.
C21_WriteOnce ==
    [][\A k \in MetricKeys : metrics[k] # NoMetric => metrics'[k] = metrics[k]]_vars

\* C22: on a click on a mailto: or tel: link the analytics sink is called
\* only if it is present, and an exception of that call does not propagate:
\* every click handler completes and writes its 'contact initiated' line.
C22_SinkFailureContained ==
    /\ ~hasGtag => gtagCalls = 0
    /\ raised = 0
    /\ logLines["email"] + logLines["phone"] = clicks

----------------------------------------------------------------------------
(* Claims on SpecObs, continued.                                           *)

\* The stagger timers of one callback of serviceObserver run in the order of
\* the batch: one that has run was preceded by every one of a smaller index.
BatchOrderKept ==
    \A s \in stagger : \A r \in stagger :
        (r.batch = s.batch /\ r.index < s.index /\ s.firedAt # NotFired)
            => (r.firedAt # NotFired /\ r.firedAt <= s.firedAt)

\* C23 (as stated): service items reported intersecting in one batch are
\* activated in the batch's order, the item at batch position index exactly
\* index * 100 ms after the callback.
C23_ActivatedAtIndexTimesStep ==
    /\ BatchOrderKept
    /\ \A s \in stagger :
          s.firedAt # NotFired => s.firedAt = s.at + s.index * StaggerStep

\* C23 (amended): service items reported intersecting in one batch are
\* activated in the batch's order, the item at batch position index no
\* earlier than index * 100 ms after the callback, and every timer that has
\* not run is still pending.
C23_ActivatedInBatchOrder ==
    /\ BatchOrderKept
    /\ \A s \in stagger :
          /\ s.firedAt # NotFired => s.firedAt >= s.at + s.index * StaggerStep
          /\ s.firedAt = NotFired <=> \E t \in timers : t.id = s.id

\* Two items of one batch have both been activated, the second one later
\* than the first.
C23_Witness ==
    \E s \in stagger : \E r \in stagger :
        /\ r.batch = s.batch /\ r.index = 0 /\ s.index = 1
        /\ r.firedAt # NotFired /\ s.firedAt > r.firedAt
        /\ acts["service"]["item1"] > 0 /\ acts["service"]["item2"] > 0

----------------------------------------------------------------------------
(* Claims on SpecScroll and SpecScrollFair.                                *)

\* The transform of .hero-content is the one of the last mousemove and its
\* box-shadow the one of the last scroll event.
ReflectsLastEvents ==
    /\ style["heroContent.transform"] = IF lastMove = 0 THEN Rest ELSE Computed(lastMove)
    /\ style["heroContent.boxShadow"] = IF scrollY = 0 THEN Rest ELSE Computed(scrollY)

\* No step changes both properties, a mousemove keeps the box-shadow and a
\* scroll event keeps the transform.
OnlyOwnProperty ==
    /\ style'["heroContent.transform"] # style["heroContent.transform"]
          => style'["heroContent.boxShadow"] = style["heroContent.boxShadow"]
    /\ lastMove' # lastMove
          => style'["heroContent.boxShadow"] = style["heroContent.boxShadow"]
    /\ scrollY' # scrollY
          => style'["heroContent.transform"] = style["heroContent.transform"]

\* C24: the hero mouse parallax and the scroll glow do not conflict: a
\* mousemove changes only the transform of .hero-content, a scroll only its
\* box-shadow, so after any interleaving the transform reflects the last
\* mousemove and the box-shadow the last scroll.
C24_ParallaxAndGlowCompose == []ReflectsLastEvents /\ [][OnlyOwnProperty]_vars

\* A mousemove and a scroll event have both been handled, in either order.
C24_Witness ==
    /\ lastMove = 1 /\ scrollY = 2
    /\ style["heroContent.transform"] = Computed(1)
    /\ style["heroContent.boxShadow"] = Computed(2)

\* The listeners of the scroll event after setup: requestTick is not one of
\* them, optimizedScroll is.
DirectListenerRemoved ==
    /\ \A i \in 1..Len(ScrollListeners) : ScrollListeners[i] # "requestTick"
    /\ \E i \in 1..Len(ScrollListeners) : ScrollListeners[i] = "optimizedScroll"

\* At most one callback for updateParallax is pending, ticking tells whether
\* one is, updateParallax runs at most once per run of the debounce timer, and
\* when the pipeline is idle after a scroll event it has run exactly once
\* since the timer's last run.
OneFramePending ==
    /\ rafPending <= 1
    /\ ticking <=> rafPending = 1
    /\ runsSinceFire <= 1
    /\ (scrollY # 0 /\ ~scrollTimer /\ rafPending = 0) => (~owed /\ runsSinceFire = 1)

\* A callback for updateParallax is requested only by the debounce timer.
RequestedByTimerOnly == rafPending' > rafPending => (scrollTimer /\ ~scrollTimer')

\* C25: requestTick is reached only through the debounced wrapper, at most
\* one animation-frame callback for updateParallax is pending, ticking is
\* true exactly while one is pending, and after the last scroll event of a
\* burst (no further scroll event follows) updateParallax eventually runs.
C25_ScrollPipeline ==
    /\ []DirectListenerRemoved
    /\ []OneFramePending
    /\ [][RequestedByTimerOnly]_vars
    /\ \A b \in {0, 1} : (owed /\ scrollSeq = b) ~> (~owed \/ scrollSeq # b)

\* A scroll event arrived while a callback of an earlier burst was pending,
\* and updateParallax has run for both: once since the timer's last run.
C25_Witness ==
    /\ scrollY = 2 /\ ~owed /\ ~scrollTimer /\ rafPending = 0 /\ ~ticking
    /\ runsSinceFire = 1
    /\ style["services.backgroundPositionY"] = Computed(2)

----------------------------------------------------------------------------
(* Claims on SpecType, continued.                                          *)

\* An execution of typeWriter leaves exactly the timer it has set: none
\* without the .subtitle element, else 500 ms after a completed deletion,
\* 2000 ms after a completed typing, 50 ms while deleting, 100 ms while typing.
StepSchedulesOne ==
    stepParity' # stepParity =>
        /\ Len(twTimers) = 1
        /\ twTimers' = IF ~subtitlePresent THEN <<>>
                       ELSE IF isDeleting
                            THEN (IF charIndex' = 0 THEN <<500>> ELSE <<50>>)
                            ELSE (IF isDeleting' THEN <<2000>> ELSE <<100>>)

\* C26: at most one typewriter timer is pending at any time; every execution
\* of typeWriter schedules at most one setTimeout, with the delay of its
\* branch, so the state is mutated by a single timer chain.
C26_SingleTimerChain ==
    /\ [](Len(twTimers) <= 1)
    /\ [](heroPc # "done" => twTimers = <<>>)
    /\ [][StepSchedulesOne]_vars

\* A subtitle has been typed and deleted in full and the 500 ms timer of the
\* completed deletion is the one pending.
C26_Witness ==
    /\ heroPc = "done" /\ ~aborted
    /\ lastRound # NoRound
    /\ ~isDeleting /\ charIndex = 0
    /\ twTimers = <<500>>

----------------------------------------------------------------------------
(* Claims on SpecRate, continued.                                          *)

LeadingDebounce == kind = "debounce" /\ immediate /\ wait > 0

\* A call of func is made synchronously by an invocation that begins a burst
\* and finds no timer set, with that invocation's arguments; the timer never
\* calls; and an invocation that finds no timer set calls.
CallsLeadBursts ==
    LeadingDebounce =>
        /\ calls' > calls =>
              /\ invocations' = invocations + 1
              /\ burst' = burst + 1
              /\ timeout = 0
              /\ lastCall' = [args |-> lastInvoke'.args, at |-> now, sync |-> TRUE]
        /\ (invocations' > invocations /\ timeout = 0) => calls' = calls + 1

\* C27 (as stated): for debounce with immediate = true and wait > 0, every
\* burst of invocations less than wait apart makes exactly one call of func,
\* synchronously on its first invocation with that invocation's arguments
\* and never from the timer; an invocation wait or more after the last one
\* calls again immediately.
C27_ExactlyOneLeadingCall ==
    /\ [](LeadingDebounce =>
            /\ closed.zero = 0
            /\ closed.many = 0
            /\ burst > 0 => burstCalls = 1)
    /\ [][CallsLeadBursts]_vars

\* C27 (amended): every burst makes at most one call of func, synchronously
\* on its first invocation with that invocation's arguments and never from
\* the timer; an invocation that finds the timer run calls immediately; a
\* burst makes no call exactly when its first invocation cancelled the timer
\* of the previous burst after that timer's time had come (a late timer).
C27_AtMostOneLeadingCall ==
    /\ [](LeadingDebounce =>
            /\ closed.many = 0
            /\ burstCalls <= 1
            /\ closed.zero + (IF burst > 0 /\ burstCalls = 0 THEN 1 ELSE 0) = cancelledDue)
    /\ [][CallsLeadBursts]_vars

\* A second burst has begun after the timer of the first one ran, and each
\* of the two has made its one call, on its first invocation.
C27_Witness ==
    /\ LeadingDebounce
    /\ burst = 2 /\ invocations >= 3
    /\ closed.one = 1 /\ burstCalls = 1
    /\ cancelledDue = 0
    /\ lastCall.sync /\ lastCall.at < lastInvoke.at

====
